---- MODULE Spec2Model ----
(***************************************************************************)
(* Message coalescing of the Telegram bot: services/message_buffer.py      *)
(* (MessageBuffer) and the session loop of handlers/message_handlers.py    *)
(* (handle_text_message).                                                  *)
(*                                                                         *)
(* The program runs on one asyncio event loop.  A transition of the model  *)
(* is the code a coroutine runs between two suspensions of the loop.       *)
(* `async with lock` on a free asyncio.Lock does not suspend, and no       *)
(* method of MessageBuffer awaits anything while it holds the lock, so a   *)
(* buffer method runs to completion inside the transition that calls it.   *)
(* The suspensions of handle_text_message are asyncio.sleep (line 85),     *)
(* message.answer (109, 128, 140), save_to_context_and_format (119),       *)
(* forward_to_debug (131, 141) and user.update_in_db (134); awaiting a     *)
(* finished task (106) does not suspend.                                   *)
(***************************************************************************)
EXTENDS Integers, Sequences, FiniteSets, TLC

\* The number of text messages the environment sends.
MaxSubmits == 3

\* The chat ids and texts the environment sends; None is the empty task
\* handle, task handles being 1, 2, ...
SecondKey == 222
Keys == {111, SecondKey}
Texts == {"a", "b"}
None == 0

VARIABLES
    user_states,    \* MessageBuffer.user_states: chat_id -> state record
    locks,          \* MessageBuffer.locks: chat_id -> lock is held
    sessions,       \* one record per handle_text_message call that got True
    tasks,          \* one record per asyncio task running get_llm_response
    accepted,       \* history: chat_id -> fragments passed to add_message
    settle_calls,   \* history: calls of save_to_context_and_format
    error_replies,  \* history: llm tasks answered with the error message
    delivered       \* history: llm tasks whose reply was passed to message.answer

vars == <<user_states, locks, sessions, tasks, accepted, settle_calls,
          error_replies, delivered>>

(***************************************************************************)
(* MessageBuffer.  A method takes the buffer object mb (user_states and    *)
(* locks) and yields the object after the call and the returned value.     *)
(***************************************************************************)
MB == [user_states |-> user_states, locks |-> locks]

\* get_lock with acquire() in place of `async with`: the lock of the chat
\* is created on demand and taken, and stays taken when the method returns.
get_lock_acquired(lk, chat_id) ==
    [k \in (DOMAIN lk) \cup {chat_id} |->
        IF k = chat_id THEN TRUE ELSE lk[k]]

\* get_lock and `async with`: the lock is created on demand, taken and
\* released again before the method returns.
get_lock(lk, chat_id) ==
    [k \in (DOMAIN lk) \cup {chat_id} |-> FALSE]

NewState == [processing |-> FALSE, buffer |-> <<>>, current_task |-> None]

\* add_message without the test of processing (line 51): every call
\* returns True.
add_message_always_starts(mb, chat_id, message_text) ==
    LET us0 == IF chat_id \in DOMAIN mb.user_states
               THEN mb.user_states
               ELSE [k \in (DOMAIN mb.user_states) \cup {chat_id} |->
                        IF k = chat_id THEN NewState ELSE mb.user_states[k]]
        us1 == [us0 EXCEPT ![chat_id].buffer = Append(@, message_text)]
    IN  [mb  |-> [user_states |-> [us1 EXCEPT ![chat_id].processing = TRUE],
                  locks |-> get_lock(mb.locks, chat_id)],
         ret |-> TRUE]

\* add_message with the append (line 49) moved into the branch that starts
\* the processing: a message that arrives during the processing is dropped.
add_message_drops_buffered(mb, chat_id, message_text) ==
    LET us0 == IF chat_id \in DOMAIN mb.user_states
               THEN mb.user_states
               ELSE [k \in (DOMAIN mb.user_states) \cup {chat_id} |->
                        IF k = chat_id THEN NewState ELSE mb.user_states[k]]
    IN  IF us0[chat_id].processing
        THEN [mb  |-> [user_states |-> us0,
                       locks |-> get_lock(mb.locks, chat_id)],
              ret |-> FALSE]
        ELSE [mb  |-> [user_states |->
                          [us0 EXCEPT ![chat_id].buffer = Append(@, message_text),
                                      ![chat_id].processing = TRUE],
                       locks |-> get_lock(mb.locks, chat_id)],
              ret |-> TRUE]

add_message(mb, chat_id, message_text) ==
    LET us0 == IF chat_id \in DOMAIN mb.user_states
               THEN mb.user_states
               ELSE [k \in (DOMAIN mb.user_states) \cup {chat_id} |->
                        IF k = chat_id THEN NewState ELSE mb.user_states[k]]
        us1 == [us0 EXCEPT ![chat_id].buffer = Append(@, message_text)]
    IN  IF us1[chat_id].processing
        THEN [mb  |-> [user_states |-> us1,
                       locks |-> get_lock(mb.locks, chat_id)],
              ret |-> FALSE]
        ELSE [mb  |-> [user_states |-> [us1 EXCEPT ![chat_id].processing = TRUE],
                       locks |-> get_lock(mb.locks, chat_id)],
              ret |-> TRUE]

\* The method of this file that copies the buffer, which also empties it.
get_buffered_messages(mb, chat_id) ==
    [mb  |-> [user_states |-> [mb.user_states EXCEPT ![chat_id].buffer = <<>>],
              locks |-> get_lock(mb.locks, chat_id)],
     ret |-> mb.user_states[chat_id].buffer]

\* Called by the handler and the tests; its body is not in
\* services/message_buffer.py.  Copy of the buffer, nothing cleared.
peek_buffered_messages(mb, chat_id) ==
    [mb  |-> [user_states |-> mb.user_states,
              locks |-> get_lock(mb.locks, chat_id)],
     ret |-> mb.user_states[chat_id].buffer]

\* Called by the handler and the tests; its body is not in
\* services/message_buffer.py.  Empties the buffer.
clear_buffer(mb, chat_id) ==
    [mb  |-> [user_states |-> [mb.user_states EXCEPT ![chat_id].buffer = <<>>],
              locks |-> get_lock(mb.locks, chat_id)],
     ret |-> None]

set_current_task(mb, chat_id, task) ==
    [mb  |-> [user_states |-> [mb.user_states EXCEPT ![chat_id].current_task = task],
              locks |-> get_lock(mb.locks, chat_id)],
     ret |-> None]

has_buffered_messages(mb, chat_id) ==
    [mb  |-> [user_states |-> mb.user_states,
              locks |-> get_lock(mb.locks, chat_id)],
     ret |-> Len(mb.user_states[chat_id].buffer) > 0]

\* finish_processing with one processing flag and task handle for all
\* chats: an empty buffer ends the processing of every chat.
finish_processing_resets_all(mb, chat_id) ==
    LET has_more == Len(mb.user_states[chat_id].buffer) > 0
    IN  [mb  |-> [user_states |->
                     IF has_more
                     THEN mb.user_states
                     ELSE [k \in DOMAIN mb.user_states |->
                             [mb.user_states[k] EXCEPT !.processing = FALSE,
                                                       !.current_task = None]],
                  locks |-> get_lock(mb.locks, chat_id)],
         ret |-> has_more]

\* finish_processing that ends the processing whether or not messages
\* are left in the buffer.
finish_processing_always_ends(mb, chat_id) ==
    LET has_more == Len(mb.user_states[chat_id].buffer) > 0
    IN  [mb  |-> [user_states |->
                     [mb.user_states EXCEPT ![chat_id].processing = FALSE,
                                            ![chat_id].current_task = None],
                  locks |-> get_lock(mb.locks, chat_id)],
         ret |-> has_more]

\* finish_processing without line 124: an empty buffer ends the
\* processing and the task handle stays recorded.
finish_processing_keeps_task(mb, chat_id) ==
    LET has_more == Len(mb.user_states[chat_id].buffer) > 0
    IN  [mb  |-> [user_states |->
                     IF has_more
                     THEN mb.user_states
                     ELSE [mb.user_states EXCEPT ![chat_id].processing = FALSE],
                  locks |-> get_lock(mb.locks, chat_id)],
         ret |-> has_more]

finish_processing(mb, chat_id) ==
    LET has_more == Len(mb.user_states[chat_id].buffer) > 0
    IN  [mb  |-> [user_states |->
                     IF has_more
                     THEN mb.user_states
                     ELSE [mb.user_states EXCEPT ![chat_id].processing = FALSE,
                                                 ![chat_id].current_task = None],
                  locks |-> get_lock(mb.locks, chat_id)],
         ret |-> has_more]

(***************************************************************************)
(* handle_text_message                                                     *)
(***************************************************************************)
\* The fragments joined by a blank: " ".join(messages).
RECURSIVE Join_with_blank(_)
Join_with_blank(messages) ==
    IF messages = <<>> THEN ""
    ELSE IF Len(messages) = 1 THEN messages[1]
    ELSE messages[1] \o " " \o Join_with_blank(Tail(messages))

\* "\n".join(messages), line 74
RECURSIVE Join(_)
Join(messages) ==
    IF messages = <<>> THEN ""
    ELSE IF Len(messages) = 1 THEN messages[1]
    ELSE messages[1] \o "\n" \o Join(Tail(messages))

TotalAccepted ==
    LET RECURSIVE Sum(_)
        Sum(S) == IF S = {} THEN 0
                  ELSE LET k == CHOOSE x \in S : TRUE
                       IN  Len(accepted[k]) + Sum(S \ {k})
    IN  Sum(Keys)


\* The updates the environment sends: MaxSubmits text messages in all; the
\* second chat, which is there for what one chat does to another, sends a
\* single message.
MaySubmit(chat_id) ==
    /\ TotalAccepted < MaxSubmits
    /\ chat_id = SecondKey => accepted[chat_id] = <<>>

NewTask(chat_id, message_text) ==
    [chat_id |-> chat_id, message_text |-> message_text, status |-> "running",
     interfered |-> FALSE, abandoned |-> FALSE]

\* The attempt as it would be with the call of the method that is in
\* services/message_buffer.py, which empties the buffer it copies.
BeginAttempt_clears_buffer(mb, tk, chat_id) ==
    LET p == get_buffered_messages(mb, chat_id)
        messages == p.ret
        combined_text == Join(messages)
        llm_task == Len(tk) + 1
        c == set_current_task(p.mb, chat_id, llm_task)
    IN  [mb |-> c.mb,
         tasks |-> Append(tk, NewTask(chat_id, combined_text)),
         messages |-> messages,
         combined_text |-> combined_text,
         llm_task |-> llm_task]

\* Lines 73-85: snapshot, start of the generation task, set_current_task;
\* the loop condition of line 84 holds for a task that has not run yet, so
\* the coroutine suspends in asyncio.sleep.
\* The attempt with llm_task.cancel() for the generations of the chat that
\* still run when the new one is started.
BeginAttempt_cancels_previous(mb, tk, chat_id) ==
    LET p == peek_buffered_messages(mb, chat_id)
        messages == p.ret
        combined_text == Join(messages)
        llm_task == Len(tk) + 1
        c == set_current_task(p.mb, chat_id, llm_task)
        cancelled == [t \in DOMAIN tk |->
                        IF tk[t].chat_id = chat_id /\ tk[t].status = "running"
                        THEN [tk[t] EXCEPT !.status = "cancelled"] ELSE tk[t]]
    IN  [mb |-> c.mb,
         tasks |-> Append(cancelled, NewTask(chat_id, combined_text)),
         messages |-> messages,
         combined_text |-> combined_text,
         llm_task |-> llm_task]

BeginAttempt(mb, tk, chat_id) ==
    LET p == peek_buffered_messages(mb, chat_id)
        messages == p.ret
        combined_text == Join(messages)
        llm_task == Len(tk) + 1
        c == set_current_task(p.mb, chat_id, llm_task)
    IN  [mb |-> c.mb,
         tasks |-> Append(tk, NewTask(chat_id, combined_text)),
         messages |-> messages,
         combined_text |-> combined_text,
         llm_task |-> llm_task]

\* The attempt without the reads of the buffer: the handler waits for the
\* task and uses its result.
AttemptOutcome_awaits_task(done, poll_buffer, confirm_buffer, messages) ==
    IF ~done THEN "sleep" ELSE "valid"

\* Lines 84-104 and 154-164, run when asyncio.sleep returns: the poll read,
\* the loop condition and the confirmation read.
AttemptOutcome(done, poll_buffer, confirm_buffer, messages) ==
    IF Len(poll_buffer) > Len(messages) THEN "interrupted"
    ELSE IF ~done THEN "sleep"
    ELSE IF Len(confirm_buffer) = Len(messages) THEN "valid"
    ELSE "stale"

\* Lines 166-175: finish_processing, then either the next attempt or the
\* end of the loop and the finally block.
\* The tail of the loop without the finally block: the break of line 170
\* leaves the typing task running.
LoopTail_keeps_typing(mb, tk, sess) ==
    LET f == finish_processing(mb, sess.chat_id)
        b == BeginAttempt(f.mb, tk, sess.chat_id)
    IN  IF f.ret
        THEN [mb |-> b.mb, tasks |-> b.tasks,
              sess |-> [sess EXCEPT !.pc = "poll", !.messages = b.messages,
                                    !.combined_text = b.combined_text,
                                    !.llm_task = b.llm_task]]
        ELSE [mb |-> f.mb, tasks |-> tk,
              sess |-> [sess EXCEPT !.pc = "done", !.exit = "normal"]]

\* The tail of the loop with a limit on the attempts of one chat: after
\* the second generation the loop ends although messages are buffered.
LoopTail_one_retry(mb, tk, sess) ==
    LET f == finish_processing(mb, sess.chat_id)
        b == BeginAttempt(f.mb, tk, sess.chat_id)
        attempts == Cardinality({t \in DOMAIN tk : tk[t].chat_id = sess.chat_id})
    IN  IF f.ret /\ attempts < 2
        THEN [mb |-> b.mb, tasks |-> b.tasks,
              sess |-> [sess EXCEPT !.pc = "poll", !.messages = b.messages,
                                    !.combined_text = b.combined_text,
                                    !.llm_task = b.llm_task]]
        ELSE [mb |-> f.mb, tasks |-> tk,
              sess |-> [sess EXCEPT !.pc = "done", !.exit = "normal",
                                    !.typing = FALSE]]

LoopTail(mb, tk, sess) ==
    LET f == finish_processing(mb, sess.chat_id)
        b == BeginAttempt(f.mb, tk, sess.chat_id)
    IN  IF f.ret
        THEN [mb |-> b.mb, tasks |-> b.tasks,
              sess |-> [sess EXCEPT !.pc = "poll", !.messages = b.messages,
                                    !.combined_text = b.combined_text,
                                    !.llm_task = b.llm_task]]
        ELSE [mb |-> f.mb, tasks |-> tk,
              sess |-> [sess EXCEPT !.pc = "done", !.exit = "normal",
                                    !.typing = FALSE]]

Interfere(tk, chat_id) ==
    [t \in DOMAIN tk |->
        IF tk[t].chat_id = chat_id /\ tk[t].status = "running"
        THEN [tk[t] EXCEPT !.interfered = TRUE] ELSE tk[t]]

Init ==
    /\ user_states = [k \in {} |-> NewState]
    /\ locks = [k \in {} |-> FALSE]
    /\ sessions = <<>>
    /\ tasks = <<>>
    /\ accepted = [k \in Keys |-> <<>>]
    /\ settle_calls = <<>>
    /\ error_replies = <<>>
    /\ delivered = {}

\* Lines 58-85: add_message; on False the handler returns, on True it starts
\* the typing task and runs the loop up to its first sleep.
HandleTextMessage(chat_id, text) ==
    /\ MaySubmit(chat_id)
    /\ accepted' = [accepted EXCEPT ![chat_id] = Append(@, text)]
    /\ LET a == add_message(MB, chat_id, text)
           tk == Interfere(tasks, chat_id)
           b == BeginAttempt(a.mb, tk, chat_id)
       IN  IF a.ret
           THEN /\ user_states' = b.mb.user_states
                /\ locks' = b.mb.locks
                /\ tasks' = b.tasks
                /\ sessions' = Append(sessions,
                      [chat_id |-> chat_id, pc |-> "poll", exit |-> "",
                       typing |-> TRUE, messages |-> b.messages,
                       combined_text |-> b.combined_text,
                       llm_task |-> b.llm_task])
           ELSE /\ user_states' = a.mb.user_states
                /\ locks' = a.mb.locks
                /\ tasks' = tk
                /\ UNCHANGED sessions
    /\ UNCHANGED <<settle_calls, error_replies, delivered>>

\* get_llm_response (llm_service.py) returns the reply, returns None, or
\* raises from the database calls that precede its try block.
LlmTaskCompletes(t, outcome) ==
    /\ t \in DOMAIN tasks
    /\ tasks[t].status = "running"
    /\ tasks' = [tasks EXCEPT ![t].status = outcome]
    /\ UNCHANGED <<user_states, locks, sessions, accepted, settle_calls,
                   error_replies, delivered>>

\* Lines 85-121 and 154-172: asyncio.sleep returns.
PollWake(s) ==
    /\ s \in DOMAIN sessions
    /\ sessions[s].pc = "poll"
    /\ LET sess == sessions[s]
           chat_id == sess.chat_id
           p == peek_buffered_messages(MB, chat_id)
           q == peek_buffered_messages(p.mb, chat_id)
           done == tasks[sess.llm_task].status # "running"
           outcome == AttemptOutcome(done, p.ret, q.ret, sess.messages)
           result == tasks[sess.llm_task].status
           tk == [tasks EXCEPT ![sess.llm_task].abandoned = TRUE]
           l == LoopTail(p.mb, tk, sess)
       IN  CASE outcome = "sleep" ->
                  /\ user_states' = p.mb.user_states
                  /\ locks' = p.mb.locks
                  /\ UNCHANGED <<sessions, tasks, settle_calls>>
             [] outcome = "valid" /\ result = "raised" ->
                  /\ user_states' = q.mb.user_states
                  /\ locks' = q.mb.locks
                  /\ sessions' = [sessions EXCEPT ![s].pc = "done",
                                     ![s].exit = "raised", ![s].typing = FALSE]
                  /\ UNCHANGED <<tasks, settle_calls>>
             [] outcome = "valid" /\ result = "none" ->
                  /\ user_states' = q.mb.user_states
                  /\ locks' = q.mb.locks
                  /\ sessions' = [sessions EXCEPT ![s].pc = "error_reply"]
                  /\ UNCHANGED <<tasks, settle_calls>>
             [] outcome = "valid" /\ result = "ok" ->
                  /\ user_states' = q.mb.user_states
                  /\ locks' = q.mb.locks
                  /\ sessions' = [sessions EXCEPT ![s].pc = "settle"]
                  /\ settle_calls' = Append(settle_calls,
                        [chat_id |-> chat_id, user_message |-> sess.combined_text,
                         messages |-> sess.messages, llm_task |-> sess.llm_task])
                  /\ UNCHANGED tasks
             [] outcome \in {"interrupted", "stale"} ->
                  /\ user_states' = l.mb.user_states
                  /\ locks' = l.mb.locks
                  /\ tasks' = l.tasks
                  /\ sessions' = [sessions EXCEPT ![s] = l.sess]
                  /\ UNCHANGED settle_calls
    /\ UNCHANGED <<accepted, error_replies, delivered>>

\* The error path with message.answer inside a loop over the snapshot:
\* one error message for every buffered message.
ErrorReplySent_per_message(s) ==
    /\ s \in DOMAIN sessions
    /\ sessions[s].pc = "error_reply"
    /\ LET sess == sessions[s]
           c == clear_buffer(MB, sess.chat_id)
           f == finish_processing(c.mb, sess.chat_id)
       IN  /\ user_states' = f.mb.user_states
           /\ locks' = f.mb.locks
           /\ sessions' = [sessions EXCEPT ![s].pc = "done",
                              ![s].exit = "error", ![s].typing = FALSE]
           /\ error_replies' = error_replies
                  \o [i \in 1..Len(sess.messages) |-> sess.llm_task]
    /\ UNCHANGED <<tasks, accepted, settle_calls, delivered>>

\* Lines 109-116: the error message was sent; clear_buffer,
\* finish_processing, return through the finally block.
\* The error path without line 115: the handler returns after
\* clear_buffer and finish_processing is not called.
ErrorReplySent_no_finish(s) ==
    /\ s \in DOMAIN sessions
    /\ sessions[s].pc = "error_reply"
    /\ LET sess == sessions[s]
           c == clear_buffer(MB, sess.chat_id)
       IN  /\ user_states' = c.mb.user_states
           /\ locks' = c.mb.locks
           /\ sessions' = [sessions EXCEPT ![s].pc = "done",
                              ![s].exit = "error", ![s].typing = FALSE]
           /\ error_replies' = Append(error_replies, sess.llm_task)
    /\ UNCHANGED <<tasks, accepted, settle_calls, delivered>>

ErrorReplySent(s) ==
    /\ s \in DOMAIN sessions
    /\ sessions[s].pc = "error_reply"
    /\ LET sess == sessions[s]
           c == clear_buffer(MB, sess.chat_id)
           f == finish_processing(c.mb, sess.chat_id)
       IN  /\ user_states' = f.mb.user_states
           /\ locks' = f.mb.locks
           /\ sessions' = [sessions EXCEPT ![s].pc = "done",
                              ![s].exit = "error", ![s].typing = FALSE]
           /\ error_replies' = Append(error_replies, sess.llm_task)
    /\ UNCHANGED <<tasks, accepted, settle_calls, delivered>>

\* Line 109: message.answer raises (TelegramForbiddenError and the like);
\* the exception leaves the handler through the finally block.
ErrorReplyRaises(s) ==
    /\ s \in DOMAIN sessions
    /\ sessions[s].pc = "error_reply"
    /\ sessions' = [sessions EXCEPT ![s].pc = "done", ![s].exit = "raised",
                                    ![s].typing = FALSE]
    /\ UNCHANGED <<user_states, locks, tasks, accepted, settle_calls,
                   error_replies, delivered>>

\* Lines 119-128: save_to_context_and_format returned (the reply is never
\* empty, line 109 of llm_service.py); the handler awaits message.answer for
\* the first chunk.
SettleReturns(s) ==
    /\ s \in DOMAIN sessions
    /\ sessions[s].pc = "settle"
    /\ sessions' = [sessions EXCEPT ![s].pc = "deliver"]
    /\ delivered' = delivered \cup {sessions[s].llm_task}
    /\ UNCHANGED <<user_states, locks, tasks, accepted, settle_calls,
                   error_replies>>

\* Line 119: save_to_context_and_format raises (a database error).
SettleRaises(s) ==
    /\ s \in DOMAIN sessions
    /\ sessions[s].pc = "settle"
    /\ sessions' = [sessions EXCEPT ![s].pc = "done", ![s].exit = "raised",
                                    ![s].typing = FALSE]
    /\ UNCHANGED <<user_states, locks, tasks, accepted, settle_calls,
                   error_replies, delivered>>

\* Lines 125-172: message.answer returned for one chunk, or it raised
\* something other than TelegramForbiddenError and the retry of line 140
\* returned or had its failure swallowed.  After the last chunk (last)
\* clear_buffer and the tail of the loop; otherwise the handler awaits
\* message.answer for the next chunk.
\* The delivery loop without line 153: after the last chunk the tail of
\* the loop runs with the buffer as it is.
DeliverChunk_no_clear(s, last) ==
    /\ s \in DOMAIN sessions
    /\ sessions[s].pc = "deliver"
    /\ LET sess == sessions[s]
           l == LoopTail(MB, tasks, sess)
       IN  /\ IF ~last
              THEN UNCHANGED <<user_states, locks, tasks, sessions>>
              ELSE /\ user_states' = l.mb.user_states
                   /\ locks' = l.mb.locks
                   /\ tasks' = l.tasks
                   /\ sessions' = [sessions EXCEPT ![s] = l.sess]
    /\ UNCHANGED <<accepted, settle_calls, error_replies, delivered>>

\* The delivery loop with a removal of the answered messages in place of
\* clear_buffer: the messages of the snapshot are taken from the front of
\* the buffer and the rest is kept.
DeliverChunk_trims_snapshot(s, last) ==
    /\ s \in DOMAIN sessions
    /\ sessions[s].pc = "deliver"
    /\ LET sess == sessions[s]
           buffer == user_states[sess.chat_id].buffer
           rest == SubSeq(buffer, Len(sess.messages) + 1, Len(buffer))
           c == [user_states |-> [user_states EXCEPT ![sess.chat_id].buffer = rest],
                 locks |-> get_lock(locks, sess.chat_id)]
           l == LoopTail(c, tasks, sess)
       IN  /\ IF ~last
              THEN UNCHANGED <<user_states, locks, tasks, sessions>>
              ELSE /\ user_states' = l.mb.user_states
                   /\ locks' = l.mb.locks
                   /\ tasks' = l.tasks
                   /\ sessions' = [sessions EXCEPT ![s] = l.sess]
    /\ UNCHANGED <<accepted, settle_calls, error_replies, delivered>>

DeliverChunk(s, last) ==
    /\ s \in DOMAIN sessions
    /\ sessions[s].pc = "deliver"
    /\ LET sess == sessions[s]
           c == clear_buffer(MB, sess.chat_id)
           l == LoopTail(c.mb, tasks, sess)
       IN  /\ IF ~last
              THEN UNCHANGED <<user_states, locks, tasks, sessions>>
              ELSE /\ user_states' = l.mb.user_states
                   /\ locks' = l.mb.locks
                   /\ tasks' = l.tasks
                   /\ sessions' = [sessions EXCEPT ![s] = l.sess]
    /\ UNCHANGED <<accepted, settle_calls, error_replies, delivered>>

\* Lines 132-136: TelegramForbiddenError; the handler returns without
\* clear_buffer and without finish_processing.
DeliverBlocked(s) ==
    /\ s \in DOMAIN sessions
    /\ sessions[s].pc = "deliver"
    /\ sessions' = [sessions EXCEPT ![s].pc = "done", ![s].exit = "blocked",
                                    ![s].typing = FALSE]
    /\ UNCHANGED <<user_states, locks, tasks, accepted, settle_calls,
                   error_replies, delivered>>

LlmOutcomes == {"ok", "none", "raised"}

Next ==
    \/ \E chat_id \in Keys, text \in Texts : HandleTextMessage(chat_id, text)
    \/ \E t \in DOMAIN tasks, outcome \in LlmOutcomes : LlmTaskCompletes(t, outcome)
    \/ \E s \in DOMAIN sessions : PollWake(s)
    \/ \E s \in DOMAIN sessions : ErrorReplySent(s)
    \/ \E s \in DOMAIN sessions : ErrorReplyRaises(s)
    \/ \E s \in DOMAIN sessions : SettleReturns(s)
    \/ \E s \in DOMAIN sessions : SettleRaises(s)
    \/ \E s \in DOMAIN sessions, last \in BOOLEAN : DeliverChunk(s, last)
    \/ \E s \in DOMAIN sessions : DeliverBlocked(s)

Spec == Init /\ [][Next]_vars


(***************************************************************************)
(* Views used by the properties                                            *)
(***************************************************************************)
StateOf(us, k) == IF k \in DOMAIN us THEN us[k] ELSE NewState

RunningSessions(k) ==
    {s \in DOMAIN sessions : sessions[s].chat_id = k /\ sessions[s].pc # "done"}

TasksOf(k) == {t \in DOMAIN tasks : tasks[t].chat_id = k}

\* The fragments of the calls of save_to_context_and_format for chat k, in
\* the order of the calls.
RECURSIVE SettledFragments(_, _)
SettledFragments(calls, k) ==
    IF calls = <<>> THEN <<>>
    ELSE (IF Head(calls).chat_id = k THEN Head(calls).messages ELSE <<>>)
         \o SettledFragments(Tail(calls), k)

(***************************************************************************)
(* C1.  At most one session loop (the handler body after add_message       *)
(* returned True) is executing for a chat at any time.                     *)
(***************************************************************************)
C1_OneSessionLoop ==
    \A k \in Keys : Cardinality(RunningSessions(k)) <= 1

\* A message was buffered while the session loop of its chat was running.
C1_Witness ==
    \E s \in DOMAIN sessions :
        /\ sessions[s].pc = "poll"
        /\ Len(StateOf(user_states, sessions[s].chat_id).buffer)
              > Len(sessions[s].messages)

C3_NoFragmentLost ==
    [][\A k \in Keys :
          Len(StateOf(user_states', k).buffer) < Len(StateOf(user_states, k).buffer)
          => \E s \in RunningSessions(k) :
                /\ sessions[s].pc \in {"deliver", "error_reply"}
                /\ sessions[s].messages = StateOf(user_states, k).buffer]_vars

(***************************************************************************)
(* C4.  The reply of a generation task that was running when a fragment    *)
(* was added for its chat is never passed to save_to_context_and_format    *)
(* and never sent.                                                         *)
(***************************************************************************)
C4_StaleDiscard ==
    /\ \A i \in DOMAIN settle_calls : ~tasks[settle_calls[i].llm_task].interfered
    /\ \A t \in delivered : ~tasks[t].interfered
    /\ \A i \in DOMAIN error_replies : ~tasks[error_replies[i]].interfered

\* A generation that a new fragment overtook has finished with a reply, and
\* a later attempt of the chat was settled.
C4_Witness ==
    \E t \in DOMAIN tasks :
        /\ tasks[t].interfered
        /\ tasks[t].status = "ok"
        /\ \E i \in DOMAIN settle_calls : settle_calls[i].chat_id = tasks[t].chat_id

(***************************************************************************)
(* C5.  Once the session loop of a chat has ended, no generation of the    *)
(* chat having failed and no exception having been raised, the chat is     *)
(* idle: processing is False and the buffer is empty.                      *)
(***************************************************************************)
C5_IdleConvergence ==
    \A k \in Keys :
        ( /\ RunningSessions(k) = {}
          /\ \A t \in TasksOf(k) : tasks[t].status \in {"running", "ok"}
          /\ \A s \in DOMAIN sessions :
                sessions[s].chat_id = k => sessions[s].exit # "raised" )
        => /\ ~StateOf(user_states, k).processing
           /\ StateOf(user_states, k).buffer = <<>>

(***************************************************************************)
(* C6.  When the handler leaves the error path of an attempt whose         *)
(* generation returned None, the buffer of the chat is empty and           *)
(* save_to_context_and_format was not called for the attempt.              *)
(***************************************************************************)
C6_ErrorClearsBatch ==
    [][\A s \in DOMAIN sessions :
          (sessions[s].pc = "error_reply" /\ sessions'[s].pc = "done")
          => /\ StateOf(user_states', sessions[s].chat_id).buffer = <<>>
             /\ \A i \in DOMAIN settle_calls' :
                   settle_calls'[i].llm_task # sessions[s].llm_task]_vars

(***************************************************************************)
(* C7.  add_message appends the text as the last element of the buffer of  *)
(* the chat and leaves processing True; it returns True (the caller starts *)
(* a session loop) exactly when processing was False, or the chat had no   *)
(* state, before the call.                                                 *)
(***************************************************************************)
C7_AddMessage ==
    [][\A k \in Keys :
          accepted'[k] # accepted[k]
          => /\ StateOf(user_states', k).buffer
                   = Append(StateOf(user_states, k).buffer,
                            accepted'[k][Len(accepted'[k])])
             /\ StateOf(user_states', k).processing
             /\ (Len(sessions') = Len(sessions) + 1)
                   <=> ~StateOf(user_states, k).processing]_vars

\* One chat has had a call that returned True and a later one that returned
\* False.
C7_Witness ==
    \E k \in Keys :
        /\ Len(accepted[k]) >= 2
        /\ Cardinality({s \in DOMAIN sessions : sessions[s].chat_id = k}) = 1
        /\ Len(StateOf(user_states, k).buffer) >= 2

(***************************************************************************)
(* C8.  When the poll loop of an attempt wakes up, the result of the       *)
(* generation is used (passed to save_to_context_and_format, answered with *)
(* the error message, or its exception raised) exactly when the task is    *)
(* done and the buffer is as long as the snapshot; nothing is persisted    *)
(* for an attempt in any other step.                                       *)
(***************************************************************************)
C8_ValidIffUnchanged ==
    [][/\ \A s \in DOMAIN sessions :
            (sessions[s].pc = "poll" /\ sessions'[s] # sessions[s])
            => ( ( \/ sessions'[s].pc \in {"settle", "error_reply"}
                   \/ sessions'[s].exit = "raised" )
                 <=> ( /\ tasks[sessions[s].llm_task].status # "running"
                       /\ Len(StateOf(user_states, sessions[s].chat_id).buffer)
                             = Len(sessions[s].messages) ) )
       /\ settle_calls' # settle_calls
            => \E s \in DOMAIN sessions :
                  /\ sessions[s].pc = "poll"
                  /\ sessions'[s].pc = "settle"
                  /\ settle_calls' = Append(settle_calls,
                        [chat_id |-> sessions[s].chat_id,
                         user_message |-> sessions[s].combined_text,
                         messages |-> sessions[s].messages,
                         llm_task |-> sessions[s].llm_task])
                  /\ tasks[sessions[s].llm_task].status = "ok"
                  /\ StateOf(user_states, sessions[s].chat_id).buffer
                        = sessions[s].messages]_vars

\* One attempt was given up and its generation has finished since; another
\* attempt of the same chat was used.
C8_Witness ==
    \E t \in DOMAIN tasks :
        /\ tasks[t].abandoned
        /\ tasks[t].status # "running"
        /\ \E i \in DOMAIN settle_calls :
              /\ settle_calls[i].chat_id = tasks[t].chat_id
              /\ settle_calls[i].llm_task # t

(***************************************************************************)
(* C9.  A snapshot is the whole buffer of the chat, in order; taking it    *)
(* changes neither the buffer nor processing nor the task handle, so the   *)
(* buffer still has messages afterwards; a later add_message leaves the    *)
(* snapshot as it was taken.                                               *)
(***************************************************************************)
C9_SnapshotIsCopy ==
    [][/\ \A s \in DOMAIN sessions' :
            ( \/ s \notin DOMAIN sessions
              \/ sessions'[s].llm_task # sessions[s].llm_task )
            => /\ sessions'[s].messages
                     = StateOf(user_states', sessions'[s].chat_id).buffer
               /\ has_buffered_messages(
                     [user_states |-> user_states', locks |-> locks'],
                     sessions'[s].chat_id).ret
               /\ s \in DOMAIN sessions
                     => StateOf(user_states', sessions[s].chat_id).buffer
                           = StateOf(user_states, sessions[s].chat_id).buffer
       /\ \A s \in DOMAIN sessions :
            sessions'[s].llm_task = sessions[s].llm_task
            => sessions'[s].messages = sessions[s].messages
       /\ (sessions' = sessions /\ accepted' = accepted)
            => user_states' = user_states]_vars

\* A fragment was added after the snapshot of a running attempt, and the
\* snapshot still is the buffer without it.
C9_Witness ==
    \E s \in DOMAIN sessions :
        LET buffer == StateOf(user_states, sessions[s].chat_id).buffer
        IN  /\ sessions[s].pc = "poll"
            /\ Len(buffer) = Len(sessions[s].messages) + 1
            /\ SubSeq(buffer, 1, Len(sessions[s].messages)) = sessions[s].messages
            /\ Len(sessions[s].messages) >= 2

(***************************************************************************)
(* C10.  For a chat at most one running generation task has not been given *)
(* up; it is the task of the chat's session loop and the recorded          *)
(* current_task.  Only such a task's reply is ever persisted or sent.      *)
(***************************************************************************)
C10_OneLiveGeneration ==
    /\ \A k \in Keys :
          LET live == {t \in TasksOf(k) :
                          tasks[t].status = "running" /\ ~tasks[t].abandoned}
          IN  /\ Cardinality(live) <= 1
              /\ \A t \in live :
                    /\ StateOf(user_states, k).current_task = t
                    /\ \E s \in RunningSessions(k) :
                          sessions[s].pc = "poll" /\ sessions[s].llm_task = t
    /\ \A i \in DOMAIN settle_calls : ~tasks[settle_calls[i].llm_task].abandoned
    /\ \A t \in delivered : ~tasks[t].abandoned
    /\ \A i \in DOMAIN error_replies : ~tasks[error_replies[i]].abandoned

\* Two generation tasks of one chat are running: one given up, one live.
C10_Witness ==
    \E t1, t2 \in DOMAIN tasks :
        /\ tasks[t1].chat_id = tasks[t2].chat_id
        /\ tasks[t1].status = "running" /\ tasks[t1].abandoned
        /\ tasks[t2].status = "running" /\ ~tasks[t2].abandoned


\* text.split("\n"): the lines of a text.
RECURSIVE SplitLines(_)
SplitLines(text) ==
    LET brk == {i \in 1..Len(text) : SubSeq(text, i, i) = "\n"}
    IN  IF brk = {} THEN <<text>>
        ELSE LET i == CHOOSE j \in brk : \A h \in brk : j <= h
             IN  <<SubSeq(text, 1, i - 1)>>
                    \o SplitLines(SubSeq(text, i + 1, Len(text)))

\* m is a run of consecutive elements of the sequence acc.
IsSegment(m, acc) ==
    \E i \in 0..Len(acc) :
        /\ i + Len(m) <= Len(acc)
        /\ SubSeq(acc, i + 1, i + Len(m)) = m

(***************************************************************************)
(* C11.  The text given to get_llm_response and the text given to          *)
(* save_to_context_and_format for an attempt are the same text; its lines  *)
(* are the fragments of the snapshot, which are consecutive fragments of   *)
(* the chat in the order of their arrival, duplicates included.            *)
(***************************************************************************)
C11_CombinedText ==
    /\ \A t \in DOMAIN tasks :
          IsSegment(SplitLines(tasks[t].message_text), accepted[tasks[t].chat_id])
    /\ \A s \in DOMAIN sessions :
          sessions[s].pc # "done"
          => /\ tasks[sessions[s].llm_task].message_text = sessions[s].combined_text
             /\ SplitLines(sessions[s].combined_text) = sessions[s].messages
    /\ \A i \in DOMAIN settle_calls :
          /\ settle_calls[i].user_message
                = tasks[settle_calls[i].llm_task].message_text
          /\ SplitLines(settle_calls[i].user_message) = settle_calls[i].messages
          /\ IsSegment(settle_calls[i].messages, accepted[settle_calls[i].chat_id])

\* A snapshot of two equal fragments was persisted as two lines.
C11_Witness ==
    \E i \in DOMAIN settle_calls :
        /\ Len(settle_calls[i].messages) = 2
        /\ settle_calls[i].messages[1] = settle_calls[i].messages[2]
        /\ Len(settle_calls[i].user_message) = 3


(***************************************************************************)
(* C12.  A step of one chat (an add_message, or a step of its session loop *)
(* with its snapshots, clear_buffer, set_current_task and                  *)
(* finish_processing) leaves the state of every other chat as it was:      *)
(* buffer, processing, current_task, and whether the chat has a state.     *)
(***************************************************************************)
C12_KeysIndependent ==
    [][\A a, b \in Keys :
          ( /\ a # b
            /\ \/ accepted'[a] # accepted[a]
               \/ \E s \in DOMAIN sessions :
                     sessions[s].chat_id = a /\ sessions'[s] # sessions[s] )
          => /\ StateOf(user_states', b) = StateOf(user_states, b)
             /\ (b \in DOMAIN user_states') <=> (b \in DOMAIN user_states)
             /\ \A s \in DOMAIN sessions :
                   sessions[s].chat_id = b => sessions'[s] = sessions[s]]_vars

\* Both chats have a running session loop at the same time, one of them
\* with a message buffered after its snapshot.
C12_Witness ==
    /\ \A k \in Keys :
          /\ RunningSessions(k) # {}
          /\ StateOf(user_states, k).processing
          /\ StateOf(user_states, k).current_task # None
    /\ \E k \in Keys : Len(StateOf(user_states, k).buffer) = 2


(***************************************************************************)
(* C13.  finish_processing(chat_id) on an empty buffer sets processing to  *)
(* False and current_task to None and returns False; on a non-empty buffer *)
(* it returns True and changes nothing.  Stated for the call on every      *)
(* reachable buffer state, and for the steps of a session loop that make   *)
(* the call: a loop that ends normally or after the error reply leaves the *)
(* chat idle with an empty buffer, a loop that starts another generation   *)
(* found a non-empty buffer and left it and the processing flag alone.     *)
(***************************************************************************)
C13_FinishProcessing ==
    [][\A k \in DOMAIN user_states :
          LET f  == finish_processing(MB, k)
              st == user_states[k]
          IN  /\ f.ret = (Len(st.buffer) > 0)
              /\ f.mb.user_states =
                    IF st.buffer = <<>>
                    THEN [user_states EXCEPT ![k].processing = FALSE,
                                             ![k].current_task = None]
                    ELSE user_states
              /\ \A s \in DOMAIN sessions :
                    (sessions[s].chat_id = k /\ sessions[s].pc # "done")
                    => /\ sessions'[s].exit \in {"normal", "error"}
                          => user_states'[k] = NewState
                       /\ sessions'[s].llm_task # sessions[s].llm_task
                          => /\ sessions'[s].pc = "poll"
                             /\ st.buffer # <<>>
                             /\ user_states'[k].buffer = st.buffer
                             /\ user_states'[k].processing = st.processing
                             /\ st.processing]_vars

\* One chat whose session loop got True from finish_processing (it gave up
\* a generation and started another) and then False (it ended normally).
C13_Witness ==
    \E s \in DOMAIN sessions :
        /\ sessions[s].exit = "normal"
        /\ user_states[sessions[s].chat_id] = NewState
        /\ \E t \in TasksOf(sessions[s].chat_id) : tasks[t].abandoned


\* m is the beginning of the sequence buf.
IsPrefix(m, buf) == Len(m) <= Len(buf) /\ SubSeq(buf, 1, Len(m)) = m

(***************************************************************************)
(* C14.  After a valid attempt with a reply the buffer is cleared only     *)
(* after save_to_context_and_format has returned: while the call is        *)
(* awaited the buffer begins with the whole snapshot, a step that shortens *)
(* the buffer is taken by a loop whose call has returned, and when the     *)
(* call raises the buffer state of the chat stays as it was.               *)
(***************************************************************************)
C14_ClearAfterPersistence ==
    [][\A s \in DOMAIN sessions :
          LET k == sessions[s].chat_id
          IN  /\ sessions[s].pc = "settle"
                 => IsPrefix(sessions[s].messages, user_states'[k].buffer)
              /\ (sessions[s].pc = "settle" /\ sessions'[s].exit = "raised")
                 => /\ user_states'[k] = user_states[k]
                    /\ IsPrefix(sessions[s].messages, user_states[k].buffer)
              /\ ( /\ sessions[s].pc \in {"settle", "deliver"}
                   /\ Len(user_states'[k].buffer) < Len(user_states[k].buffer) )
                 => /\ sessions[s].pc = "deliver"
                    /\ sessions[s].llm_task \in delivered]_vars

\* save_to_context_and_format raised for a batch of two messages of one
\* chat, which are still buffered, and returned for the other chat, whose
\* buffer was cleared afterwards.
C14_Witness ==
    /\ \E s \in DOMAIN sessions :
          /\ sessions[s].exit = "raised"
          /\ tasks[sessions[s].llm_task].status = "ok"
          /\ \E i \in DOMAIN settle_calls :
                settle_calls[i].llm_task = sessions[s].llm_task
          /\ sessions[s].llm_task \notin delivered
          /\ Len(sessions[s].messages) = 2
          /\ IsPrefix(sessions[s].messages,
                      user_states[sessions[s].chat_id].buffer)
    /\ \E s \in DOMAIN sessions :
          /\ sessions[s].exit = "normal"
          /\ sessions[s].llm_task \in delivered
          /\ user_states[sessions[s].chat_id].buffer = <<>>


(***************************************************************************)
(* C15.  Every exit of the session loop, the exceptions of generation,     *)
(* persistence and delivery and the return for a user who blocked the bot  *)
(* included, resets processing: no chat has processing True while no       *)
(* session loop runs for it.                                               *)
(***************************************************************************)
C15_CleanupOnEveryExit ==
    \A k \in Keys :
        StateOf(user_states, k).processing => RunningSessions(k) # {}


(***************************************************************************)
(* C16.  After a settlement that failed (save_to_context_and_format raised *)
(* or the delivery ended the handler, the generation having returned a     *)
(* reply) the next add_message of the chat starts a generation whose       *)
(* snapshot is the retained messages followed by the new one.              *)
(***************************************************************************)
C16_RetainedBatchRetried ==
    [][\A k \in Keys :
          ( /\ accepted'[k] # accepted[k]
            /\ RunningSessions(k) = {}
            /\ \E s \in DOMAIN sessions :
                  /\ sessions[s].chat_id = k
                  /\ sessions[s].exit \in {"raised", "blocked"}
                  /\ tasks[sessions[s].llm_task].status = "ok" )
          => \E t \in DOMAIN tasks' \ DOMAIN tasks :
                /\ tasks'[t].chat_id = k
                /\ tasks'[t].message_text =
                      Join(Append(StateOf(user_states, k).buffer,
                                  accepted'[k][Len(accepted'[k])]))]_vars


(***************************************************************************)
(* C17.  The typing task is started once for every add_message that        *)
(* returns True and for no call that returns False, it is not cancelled   *)
(* while the session loop runs, and every exit of the loop (normal end,    *)
(* return after the error reply, return for a user who blocked the bot,    *)
(* exception) cancels it; a cancelled typing task is not started again.    *)
(***************************************************************************)
C17_TypingSignal ==
    [][/\ \A k \in Keys :
             accepted'[k] # accepted[k]
             => LET text == accepted'[k][Len(accepted'[k])]
                IN  IF add_message(MB, k, text).ret
                    THEN /\ Len(sessions') = Len(sessions) + 1
                         /\ sessions'[Len(sessions')].chat_id = k
                         /\ sessions'[Len(sessions')].typing
                    ELSE Len(sessions') = Len(sessions)
       /\ accepted' = accepted => Len(sessions') = Len(sessions)
       /\ \A s \in DOMAIN sessions :
             /\ sessions[s].typing <=> sessions[s].pc # "done"
             /\ sessions'[s].typing <=> sessions'[s].pc # "done"
             /\ sessions'[s].typing => sessions[s].typing
             /\ sessions[s].pc = "done"
                => sessions[s].exit \in {"normal", "error", "blocked", "raised"}
      ]_vars

\* Three messages, one of which got False from add_message, gave two typing
\* tasks; both were cancelled, one by an exception and one by the return
\* for a user who blocked the bot.
C17_Witness ==
    /\ TotalAccepted = 3
    /\ Len(sessions) = 2
    /\ \A s \in DOMAIN sessions : ~sessions[s].typing
    /\ {sessions[s].exit : s \in DOMAIN sessions} = {"raised", "blocked"}


\* The session loops started for chat k, running or ended.
SessionsOf(k) == {s \in DOMAIN sessions : sessions[s].chat_id = k}

\* clear_buffer has run for chat k: lines 114 and 153 are followed by the
\* return of line 116 and by the break of line 170.
Cleared(k) == \E s \in SessionsOf(k) : sessions[s].exit \in {"normal", "error"}

(***************************************************************************)
(* C18.  The add_message calls that arrive for an idle chat are serialized *)
(* by the lock of the chat: one returns True and the others return False,  *)
(* and the buffer holds each of their texts once, in the order of the      *)
(* calls.  As long as the buffer of a chat has not been cleared, it is the *)
(* sequence of all accepted texts and one session loop was started; the    *)
(* call that finds the chat idle finds an empty buffer and starts the one  *)
(* loop, every call behind it adds its text at the end and starts none.    *)
(***************************************************************************)
C18_ConcurrentAdds ==
    [][\A k \in Keys :
          /\ (~Cleared(k) /\ accepted[k] # <<>>)
             => /\ user_states[k].buffer = accepted[k]
                /\ user_states[k].processing
                /\ Cardinality(SessionsOf(k)) = 1
          /\ accepted'[k] # accepted[k]
             => LET text == accepted'[k][Len(accepted'[k])]
                    st   == StateOf(user_states, k)
                IN  /\ accepted'[k] = Append(accepted[k], text)
                    /\ ~locks'[k]
                    /\ user_states'[k].buffer = Append(st.buffer, text)
                    /\ user_states'[k].processing
                    /\ IF st.processing
                       THEN sessions' = sessions
                       ELSE /\ st.buffer = <<>>
                            /\ Len(sessions') = Len(sessions) + 1
                            /\ sessions'[Len(sessions')].chat_id = k
                            /\ sessions'[Len(sessions')].messages = <<text>>
      ]_vars

\* Three calls for one chat, two of them with the same text: one session
\* loop, and the buffer holds the three texts in the order of the calls.
C18_Witness ==
    \E k \in Keys :
        /\ accepted[k] = <<"a", "b", "a">>
        /\ user_states[k].buffer = accepted[k]
        /\ Cardinality(SessionsOf(k)) = 1
        /\ RunningSessions(k) # {}


(***************************************************************************)
(* C19.  No handler holds the lock of a chat across a suspension: whenever *)
(* the event loop has control (every state of the model) every lock that   *)
(* exists is free, for every chat that has a state, so an acquisition      *)
(* never has to wait.                                                      *)
(***************************************************************************)
C19_LocksFreeAtSuspension ==
    /\ DOMAIN locks = DOMAIN user_states
    /\ \A k \in DOMAIN locks : ~locks[k]

\* Both chats have a lock, taken and released by add_message, by the
\* snapshot and by set_current_task, and one chat has had a further
\* add_message while its session loop was suspended.
C19_Witness ==
    /\ DOMAIN locks = Keys
    /\ \A k \in Keys : ~locks[k] /\ RunningSessions(k) # {}
    /\ \E k \in Keys : Len(user_states[k].buffer) = 2 /\ Len(tasks) = 3


\* The calls of message.answer with the error text (line 109) made for the
\* generation task t: awaited, returned, or ended by an exception.
ErrorCalls(t) ==
    {s \in DOMAIN sessions :
        /\ sessions[s].llm_task = t
        /\ \/ sessions[s].pc = "error_reply"
           \/ sessions[s].exit = "error"
           \/ sessions[s].exit = "raised" /\ tasks[t].status = "none"}

\* The error messages that were sent for the generation task t.
ErrorRepliesOf(t) == {i \in DOMAIN error_replies : error_replies[i] = t}

C21_HandleOnlyWhileProcessing ==
    \A k \in DOMAIN user_states :
        user_states[k].current_task # None => user_states[k].processing

\* One chat has a task recorded while it is processed; the other had one,
\* and finish_processing removed it together with the processing flag.
C21_Witness ==
    \E k \in DOMAIN user_states, j \in DOMAIN user_states :
        /\ user_states[k].processing
        /\ user_states[k].current_task \in TasksOf(k)
        /\ j # k
        /\ TasksOf(j) # {}
        /\ user_states[j] = NewState

(***************************************************************************)
(* C22.  Between the operations on the buffer, a chat whose processing is  *)
(* False has an empty buffer: messages are buffered only while the chat is *)
(* marked as being processed.                                              *)
(***************************************************************************)
C22_IdleMeansEmpty ==
    \A k \in DOMAIN user_states :
        ~user_states[k].processing => user_states[k].buffer = <<>>

\* One chat is processed with two messages buffered; the other was
\* answered and is idle again with an empty buffer.
C22_Witness ==
    \E k \in DOMAIN user_states, j \in DOMAIN user_states :
        /\ user_states[k].processing
        /\ Len(user_states[k].buffer) = 2
        /\ ~user_states[j].processing
        /\ user_states[j].buffer = <<>>
        /\ \E t \in TasksOf(j) : t \in delivered

\* The buffer of the chat has grown since the snapshot of the attempt that
\* session loop s waits for (lines 88-89).
Grown(s) ==
    /\ sessions[s].pc = "poll"
    /\ Len(user_states[sessions[s].chat_id].buffer) > Len(sessions[s].messages)

(***************************************************************************)
(* C23.  The session loop has no limit on its attempts: whenever a message *)
(* was added during an attempt, the next step of the loop gives the        *)
(* attempt up and starts a generation for the whole buffer, however many   *)
(* attempts were given up before, and neither save_to_context_and_format   *)
(* is called nor an error message sent.                                    *)
(***************************************************************************)
C23_UnboundedReattempts ==
    [][\A s \in DOMAIN sessions :
          (Grown(s) /\ sessions'[s] # sessions[s])
          => /\ sessions'[s].pc = "poll"
             /\ Len(tasks') = Len(tasks) + 1
             /\ sessions'[s].llm_task = Len(tasks')
             /\ tasks'[sessions'[s].llm_task].status = "running"
             /\ tasks'[sessions[s].llm_task].abandoned
             /\ sessions'[s].messages = user_states[sessions[s].chat_id].buffer
             /\ settle_calls' = settle_calls
             /\ error_replies' = error_replies
             /\ delivered' = delivered]_vars

\* Three messages of one chat, the second and the third added during an
\* attempt: two attempts were given up, the third runs for the three
\* messages, and save_to_context_and_format was not called.
C23_Witness ==
    \E s \in DOMAIN sessions :
        /\ sessions[s].pc = "poll"
        /\ Len(sessions[s].messages) = 3
        /\ Cardinality(TasksOf(sessions[s].chat_id)) = 3
        /\ Cardinality({t \in TasksOf(sessions[s].chat_id) :
                           tasks[t].abandoned /\ tasks[t].interfered}) = 2
        /\ settle_calls = <<>>

(***************************************************************************)
(* C24.  The handler never cancels a generation.  A task ends only by the  *)
(* return or the exception of get_llm_response, the step that gives an     *)
(* attempt up leaves its task as it is, and the completion of a task that  *)
(* was given up changes neither the buffer, the processing flag or the     *)
(* recorded task of any chat nor any session loop, and leads to no call of *)
(* save_to_context_and_format, no delivery and no error message.           *)
(***************************************************************************)
C24_NoCancellation ==
    [][\A t \in DOMAIN tasks :
          /\ tasks'[t].status \in {"running"} \cup LlmOutcomes
          /\ tasks'[t].status # tasks[t].status
             => /\ tasks[t].status = "running"
                /\ tasks'[t].abandoned = tasks[t].abandoned
                /\ UNCHANGED <<user_states, locks, sessions, accepted,
                               settle_calls, error_replies, delivered>>
          /\ tasks[t].abandoned
             => /\ tasks'[t].abandoned
                /\ t \notin delivered'
                /\ ErrorCalls(t) = {}
                /\ \A i \in DOMAIN settle_calls' : settle_calls'[i].llm_task # t
                /\ \A s \in DOMAIN sessions' : sessions'[s].pc # "done"
                                               => sessions'[s].llm_task # t
      ]_vars

\* Two attempts of one chat were given up: the generation of the first has
\* returned None, the generation of the second still runs and can return,
\* while the loop waits for the third.
C24_Witness ==
    \E t \in DOMAIN tasks, u \in DOMAIN tasks :
        /\ tasks[t].chat_id = tasks[u].chat_id
        /\ tasks[t].abandoned /\ tasks[t].status = "none"
        /\ tasks[u].abandoned /\ tasks[u].status = "running"
        /\ ENABLED LlmTaskCompletes(u, "ok")
        /\ RunningSessions(tasks[u].chat_id) # {}
        /\ error_replies = <<>>

\* The session loop of chat k that was started last.
LastSession(k) == CHOOSE s \in SessionsOf(k) : \A r \in SessionsOf(k) : r <= s

(***************************************************************************)
(* C25.  When the error path has run to its end (error message sent,       *)
(* clear_buffer, finish_processing, return), the chat is idle: processing  *)
(* is False, the buffer is empty and current_task is None, also when a     *)
(* message was added while the error message was being sent; the next      *)
(* add_message of the chat returns True and starts a session loop for that *)
(* message alone.                                                          *)
(***************************************************************************)
C25_IdleAfterErrorPath ==
    [][\A k \in Keys :
          /\ \A s \in SessionsOf(k) :
                (sessions[s].pc = "error_reply" /\ sessions'[s].exit = "error")
                => /\ user_states'[k] = NewState
                   /\ \A text \in Texts :
                         add_message([user_states |-> user_states',
                                      locks |-> locks'], k, text).ret
          /\ ( /\ accepted'[k] # accepted[k]
               /\ SessionsOf(k) # {}
               /\ sessions[LastSession(k)].exit = "error" )
             => /\ Len(sessions') = Len(sessions) + 1
                /\ sessions'[Len(sessions')].chat_id = k
                /\ sessions'[Len(sessions')].messages
                      = <<accepted'[k][Len(accepted'[k])]>>
                /\ user_states'[k].processing]_vars

\* A generation for one message returned None; a second message was added
\* while the error message was being sent; after the return of the handler
\* a third message started a new session loop.
C25_Witness ==
    \E k \in Keys :
        /\ Len(accepted[k]) = 3
        /\ Cardinality(SessionsOf(k)) = 2
        /\ Cardinality(TasksOf(k)) = 2
        /\ \E s \in SessionsOf(k) :
              /\ sessions[s].exit = "error"
              /\ sessions[s].messages = <<accepted[k][1]>>
        /\ sessions[LastSession(k)].pc = "poll"
        /\ sessions[LastSession(k)].messages = <<accepted[k][3]>>

(***************************************************************************)
(* C26.  The step that gives an attempt up (interrupted, or stale at the   *)
(* confirmation read) leaves the buffer of the chat as it is;              *)
(* finish_processing then returns True, and the snapshot of the next       *)
(* attempt is the whole buffer: it begins with the previous snapshot and   *)
(* is longer.                                                              *)
(***************************************************************************)
C26_InterruptKeepsBuffer ==
    [][\A s \in DOMAIN sessions :
          (sessions[s].pc = "poll" /\ sessions'[s].llm_task # sessions[s].llm_task)
          => LET k == sessions[s].chat_id
             IN  /\ user_states'[k].buffer = user_states[k].buffer
                 /\ user_states'[k].processing
                 /\ finish_processing(MB, k).ret
                 /\ finish_processing(MB, k).mb.user_states = user_states
                 /\ sessions'[s].pc = "poll"
                 /\ sessions'[s].messages = user_states[k].buffer
                 /\ IsPrefix(sessions[s].messages, sessions'[s].messages)
                 /\ Len(sessions'[s].messages) > Len(sessions[s].messages)
                 /\ tasks'[sessions'[s].llm_task].message_text
                       = Join(sessions'[s].messages)]_vars

\* The attempt for "a" was given up when "b" arrived: the buffer holds both
\* and the second attempt runs for both.
C26_Witness ==
    \E s \in DOMAIN sessions, t \in DOMAIN tasks :
        /\ sessions[s].pc = "poll"
        /\ sessions[s].messages = <<"a", "b">>
        /\ user_states[sessions[s].chat_id].buffer = <<"a", "b">>
        /\ tasks[t].chat_id = sessions[s].chat_id
        /\ tasks[t].abandoned
        /\ tasks[t].message_text = "a"
        /\ tasks[sessions[s].llm_task].message_text = "a\nb"
        /\ Cardinality(TasksOf(sessions[s].chat_id)) = 2

\* Session loop s waits in the poll loop, its generation has completed,
\* and the buffer has grown since the snapshot without a poll having seen
\* it.
CompletedUnobserved(s) ==
    /\ Grown(s)
    /\ tasks[sessions[s].llm_task].status # "running"

\* The classification of the attempt of session loop s by the reads that
\* follow the sleep.
OutcomeOf(s) ==
    LET buffer == user_states[sessions[s].chat_id].buffer
    IN  AttemptOutcome(tasks[sessions[s].llm_task].status # "running",
                       buffer, buffer, sessions[s].messages)

(***************************************************************************)
(* C27, as stated.  When the buffer grew during an attempt and no poll saw *)
(* it before the generation completed, the confirmation read classifies    *)
(* the attempt as stale and its result is not used.                        *)
(***************************************************************************)
C27_ConfirmationReadClassifies ==
    [][\A s \in DOMAIN sessions :
          (CompletedUnobserved(s) /\ sessions'[s] # sessions[s])
          => /\ OutcomeOf(s) = "stale"
             /\ settle_calls' = settle_calls]_vars

(***************************************************************************)
(* C27, amended.  When the buffer grew during an attempt, by one message   *)
(* or more, and no poll saw it before the generation completed, the poll   *)
(* read that follows the sleep finds the buffer longer than the snapshot   *)
(* and gives the attempt up as interrupted, whenever the sleep returns;    *)
(* the confirmation read is not reached.  The result is not passed to      *)
(* save_to_context_and_format, nothing is sent, the buffer is kept and the *)
(* loop starts an attempt for the whole buffer.  No attempt is classified  *)
(* as stale by the confirmation read.                                      *)
(***************************************************************************)
C27_PollReadAfterCompletion ==
    [][\A s \in DOMAIN sessions :
          /\ sessions[s].pc = "poll" => OutcomeOf(s) # "stale"
          /\ (CompletedUnobserved(s) /\ sessions'[s] # sessions[s])
             => /\ OutcomeOf(s) = "interrupted"
                /\ tasks'[sessions[s].llm_task].abandoned
                /\ sessions'[s].pc = "poll"
                /\ sessions'[s].messages = user_states[sessions[s].chat_id].buffer
                /\ user_states'[sessions[s].chat_id].buffer
                      = user_states[sessions[s].chat_id].buffer
                /\ settle_calls' = settle_calls
                /\ error_replies' = error_replies
                /\ delivered' = delivered]_vars

\* A generation has returned a reply; one message was added while it ran,
\* and the poll loop has not woken up since.
C27_Witness ==
    \E s \in DOMAIN sessions :
        /\ CompletedUnobserved(s)
        /\ tasks[sessions[s].llm_task].status = "ok"
        /\ tasks[sessions[s].llm_task].interfered
        /\ ~tasks[sessions[s].llm_task].abandoned
        /\ Len(user_states[sessions[s].chat_id].buffer)
              = Len(sessions[s].messages) + 1
        /\ ENABLED PollWake(s)

\* The calls of save_to_context_and_format for chat k, in their order.
CallsOf(calls, k) == SelectSeq(calls, LAMBDA c : c.chat_id = k)

\* m is the end of the sequence acc.
IsSuffix(m, acc) ==
    Len(m) <= Len(acc) /\ SubSeq(acc, Len(acc) - Len(m) + 1, Len(acc)) = m

\* The snapshots of the calls cs are runs of acc that follow each other
\* without overlap, the first of them beginning behind position from.
RECURSIVE DisjointRuns(_, _, _)
DisjointRuns(cs, acc, from) ==
    IF cs = <<>> THEN TRUE
    ELSE LET m == Head(cs).messages
         IN  \E o \in from..(Len(acc) - Len(m)) :
                 /\ SubSeq(acc, o + 1, o + Len(m)) = m
                 /\ DisjointRuns(Tail(cs), acc, o + Len(m))

(***************************************************************************)
(* C28.  save_to_context_and_format is called at most once for a           *)
(* generation task, and no accepted message is persisted twice.  The       *)
(* buffer of a chat is always the end of the sequence of its accepted      *)
(* messages; a call persists the whole buffer, and it is made only when    *)
(* every earlier call of the chat was followed by clear_buffer, so the     *)
(* messages it persists were accepted after those of the earlier calls:    *)
(* the snapshots of the calls of a chat are runs of its accepted messages  *)
(* that do not overlap.                                                    *)
(***************************************************************************)
C28_SettleOnce ==
    [][/\ \A i, j \in DOMAIN settle_calls :
             settle_calls[i].llm_task = settle_calls[j].llm_task => i = j
       /\ \A k \in Keys :
             /\ IsSuffix(StateOf(user_states, k).buffer, accepted[k])
             /\ DisjointRuns(CallsOf(settle_calls, k), accepted[k], 0)
             /\ Len(SettledFragments(settle_calls, k)) <= Len(accepted[k])
             /\ CallsOf(settle_calls', k) # CallsOf(settle_calls, k)
                => LET new == settle_calls'[Len(settle_calls')]
                   IN  /\ settle_calls' = Append(settle_calls, new)
                       /\ new.messages = user_states[k].buffer
                       /\ \A i \in DOMAIN settle_calls :
                             settle_calls[i].chat_id = k
                             => /\ settle_calls[i].llm_task \in delivered
                                /\ \E s \in SessionsOf(k) :
                                      /\ sessions[s].llm_task
                                            = settle_calls[i].llm_task
                                      /\ sessions[s].exit = "normal"
                                /\ Len(SettledFragments(settle_calls, k))
                                      + Len(new.messages) <= Len(accepted[k])
      ]_vars

\* Two calls for one chat, the first for one message, the second for the
\* message with the same text that was accepted after the first reply.
C28_Witness ==
    \E k \in Keys :
        /\ Len(CallsOf(settle_calls, k)) = 2
        /\ CallsOf(settle_calls, k)[1].messages = CallsOf(settle_calls, k)[2].messages
        /\ Len(accepted[k]) >= 2
        /\ SettledFragments(settle_calls, k) = SubSeq(accepted[k], 1, 2)

(***************************************************************************)
(* C29.  A generation that returned None for an attempt during which the   *)
(* buffer grew is discarded like any other: the step of the loop that      *)
(* follows sends no error message, leaves the buffer as it is and starts   *)
(* an attempt with a snapshot of the whole buffer; no error message is     *)
(* sent for it later either.                                               *)
(***************************************************************************)
C29_FailedButInterrupted ==
    [][/\ \A s \in DOMAIN sessions :
             ( /\ Grown(s)
               /\ tasks[sessions[s].llm_task].status = "none"
               /\ sessions'[s] # sessions[s] )
             => LET k == sessions[s].chat_id
                IN  /\ sessions'[s].pc = "poll"
                    /\ sessions'[s].llm_task # sessions[s].llm_task
                    /\ sessions'[s].messages = user_states[k].buffer
                    /\ user_states'[k].buffer = user_states[k].buffer
                    /\ user_states'[k].processing
                    /\ error_replies' = error_replies
                    /\ settle_calls' = settle_calls
       /\ \A t \in DOMAIN tasks :
             (tasks[t].abandoned /\ tasks[t].status = "none")
             => ErrorRepliesOf(t) = {} /\ ErrorCalls(t) = {}]_vars

\* The generation for "b" returned None after "a" had been added; the loop
\* has started the generation for both, no error message was sent, and the
\* buffer holds both messages.
C29_Witness ==
    \E s \in DOMAIN sessions, t \in DOMAIN tasks :
        /\ tasks[t].chat_id = sessions[s].chat_id
        /\ tasks[t].abandoned
        /\ tasks[t].status = "none"
        /\ tasks[t].message_text = "b"
        /\ sessions[s].pc = "poll"
        /\ sessions[s].llm_task > t
        /\ tasks[sessions[s].llm_task].status = "running"
        /\ user_states[sessions[s].chat_id].buffer = <<"b", "a">>
        /\ sessions[s].messages = <<"b", "a">>
        /\ error_replies = <<>>

(***************************************************************************)
(* C30.  The buffer of a chat changes in two ways only: add_message puts   *)
(* one text at its end, and the session loop of the chat empties it, after *)
(* the delivery or after the error message.  It is never shortened in      *)
(* part nor reordered, and it does not get shorter while the loop waits    *)
(* for a generation or makes the reads that follow.                        *)
(***************************************************************************)
C30_BufferChanges ==
    [][\A k \in Keys :
          LET buffer == StateOf(user_states, k).buffer
          IN  /\ StateOf(user_states', k).buffer # buffer
                 => \/ /\ accepted'[k] # accepted[k]
                       /\ StateOf(user_states', k).buffer
                             = Append(buffer, accepted'[k][Len(accepted'[k])])
                    \/ /\ accepted' = accepted
                       /\ StateOf(user_states', k).buffer = <<>>
                       /\ \E s \in SessionsOf(k) :
                             /\ sessions[s].pc \in {"deliver", "error_reply"}
                             /\ sessions'[s] # sessions[s]
              /\ \A s \in SessionsOf(k) :
                    sessions[s].pc = "poll"
                    => IsPrefix(buffer, StateOf(user_states', k).buffer)]_vars

\* One chat: two messages accepted, the second while the reply to the
\* first was persisted or delivered, and the buffer emptied as a whole; the
\* other chat:
\* one message appended and buffered.
C30_Witness ==
    \E k \in DOMAIN user_states, j \in DOMAIN user_states :
        /\ Len(accepted[k]) = 2
        /\ user_states[k].buffer = <<>>
        /\ Len(SettledFragments(settle_calls, k)) = 1
        /\ Cardinality(TasksOf(k)) = 1
        /\ sessions[LastSession(k)].exit = "normal"
        /\ j # k
        /\ user_states[j].buffer = accepted[j]
        /\ Len(accepted[j]) = 1

====
